---- MODULE Spec2Model ----
(***************************************************************************)
(* AI-Writer: the streaming generation pipeline.                           *)
(*   OllamaAPI / OllamaWorker   (src/src/ai_writer/core/ollama_client.py)  *)
(*   MainWindow                 (src/src/ai_writer/ui/main_window.py)      *)
(*   FileManager                (src/src/ai_writer/core/file_manager.py)   *)
(*   SpellChecker               (src/src/ai_writer/core/spell_checker.py)  *)
(* Text is a sequence of one-character strings.  Worker threads post their *)
(* signals to the UI thread's event queue (queued connections); the UI     *)
(* thread handles one event or one user action at a time.                  *)
(***************************************************************************)
EXTENDS Integers, Sequences, FiniteSets, TLC

VARIABLES
    doc,            \* editor.toPlainText()
    combo,          \* items of model_combo
    idx,            \* model_combo.currentIndex() + 1 (0: no current item)
    btnEnabled,     \* generate_btn.isEnabled()
    btnText,        \* generate_btn.text()
    status,         \* statusBar message
    cursorPos,      \* generation_cursor_pos
    cur,            \* self.worker (index into ws, 0: none yet)
    ws,             \* the OllamaWorker threads created so far
    events,         \* signals posted to the UI thread, oldest first
    hist,           \* per worker: what the UI thread did for it (history)
    inputs,         \* inputs so far (see MaxInputs)
    call,           \* a single call of a function of OllamaAPI or of
                    \* OllamaWorker.run, with its arguments and its result
    spell           \* the SpellChecker of the editor and its worker threads

vars == <<doc, combo, idx, btnEnabled, btnText, status, cursorPos, cur, ws,
          events, hist, inputs, call, spell>>

-----------------------------------------------------------------------------
\* Bounds of the model.
\* MaxInputs caps the inputs of one run: a user edit, a pick in the combo
\* and a line of a response body count one, a new worker thread counts two.
MaxInputs == 8

-----------------------------------------------------------------------------
\* Text helpers (Python str methods).

IsSpace(c) == c \in {" ", "\n", "\t"}

RECURSIVE LStrip(_)
LStrip(s) == IF s # <<>> /\ IsSpace(Head(s)) THEN LStrip(Tail(s)) ELSE s

RECURSIVE RStrip(_)
RStrip(s) ==
    IF s # <<>> /\ IsSpace(s[Len(s)]) THEN RStrip(SubSeq(s, 1, Len(s) - 1)) ELSE s

Strip(s) == RStrip(LStrip(s))

StartsWith(s, p) == Len(p) <= Len(s) /\ SubSeq(s, 1, Len(p)) = p

EndsWith(s, p) == Len(p) <= Len(s) /\ SubSeq(s, Len(s) - Len(p) + 1, Len(s)) = p

Drop(s, n) == SubSeq(s, n + 1, Len(s))

UpperChars == <<"A","B","C","D","E","F","G","H","I","J","K","L","M",
                "N","O","P","Q","R","S","T","U","V","W","X","Y","Z">>
LowerChars == <<"a","b","c","d","e","f","g","h","i","j","k","l","m",
                "n","o","p","q","r","s","t","u","v","w","x","y","z">>

LowerChar(c) ==
    IF \E i \in 1..Len(UpperChars) : UpperChars[i] = c
    THEN LowerChars[CHOOSE i \in 1..Len(UpperChars) : UpperChars[i] = c]
    ELSE c

Lower(s) == [i \in 1..Len(s) |-> LowerChar(s[i])]

QUOTE == "\""

-----------------------------------------------------------------------------
\* OllamaAPI.clean_completion

prefixes == <<
    <<"h","e","r","e","'","s"," ","t","h","e"," ","c","o","n","t","i","n","u","a","t","i","o","n",":">>,
    <<"c","o","n","t","i","n","u","a","t","i","o","n",":">>,
    <<"c","o","n","t","i","n","u","e","d",":">>,
    <<"h","e","r","e"," ","i","s"," ","t","h","e"," ","c","o","m","p","l","e","t","i","o","n",":">>,
    <<"h","e","r","e","'","s"," ","t","h","e"," ","c","o","m","p","l","e","t","i","o","n",":">>,
    <<"t","h","e"," ","c","o","n","t","i","n","u","a","t","i","o","n"," ","i","s",":">>,
    <<"c","o","m","p","l","e","t","i","o","n",":">> >>

\* faulty variant of StripPrefixes: no phrase is removed
StripPrefixesNone(s, i) == s

\* for prefix in prefixes: if ...lower().startswith(prefix): strip it
RECURSIVE StripPrefixes(_, _)
StripPrefixes(s, i) ==
    IF i > Len(prefixes) THEN s
    ELSE StripPrefixes(
            IF StartsWith(Lower(s), prefixes[i])
            THEN Strip(Drop(s, Len(prefixes[i])))
            ELSE s,
            i + 1)

\* faulty variant of clean_completion: the echo of the original is kept
clean_completion_keep_echo(original, completion) ==
    LET original_stripped == Strip(original)
        c2 == StripPrefixes(Strip(completion), 1)
    IN  IF StartsWith(c2, <<QUOTE>>) /\ ~EndsWith(original_stripped, <<QUOTE>>)
        THEN Strip(Drop(c2, 1))
        ELSE c2

\* faulty variant of clean_completion: a closing quote goes with the
\* opening one
clean_completion_both_quotes(original, completion) ==
    LET original_stripped == Strip(original)
        c0 == Strip(completion)
        c1 == IF StartsWith(c0, original_stripped)
              THEN Strip(Drop(c0, Len(original_stripped)))
              ELSE c0
        c2 == StripPrefixes(c1, 1)
        c3 == Strip(Drop(c2, 1))
    IN  IF StartsWith(c2, <<QUOTE>>) /\ ~EndsWith(original_stripped, <<QUOTE>>)
        THEN (IF EndsWith(c3, <<QUOTE>>) THEN Strip(SubSeq(c3, 1, Len(c3) - 1))
              ELSE c3)
        ELSE c2

\* faulty variant of clean_completion: the completion is not trimmed first
clean_completion_untrimmed(original, completion) ==
    LET original_stripped == Strip(original)
        c0 == completion
        c1 == IF StartsWith(c0, original_stripped)
              THEN Strip(Drop(c0, Len(original_stripped)))
              ELSE c0
        c2 == StripPrefixes(c1, 1)
    IN  IF StartsWith(c2, <<QUOTE>>) /\ ~EndsWith(original_stripped, <<QUOTE>>)
        THEN Strip(Drop(c2, 1))
        ELSE c2

clean_completion(original, completion) ==
    LET original_stripped == Strip(original)
        c0 == Strip(completion)
        c1 == IF StartsWith(c0, original_stripped)
              THEN Strip(Drop(c0, Len(original_stripped)))
              ELSE c0
        c2 == StripPrefixes(c1, 1)
    IN  IF StartsWith(c2, <<QUOTE>>) /\ ~EndsWith(original_stripped, <<QUOTE>>)
        THEN Strip(Drop(c2, 1))
        ELSE c2

-----------------------------------------------------------------------------
\* What the model server can send.

Fragments == { <<>>, <<" ">>, <<QUOTE, "b">> }

\* One line of the streamed response body: an empty keep-alive line, or a
\* JSON object {"response": ..., "done": ...}.
BlankLine == [blank |-> TRUE, response |-> <<>>, done |-> FALSE]
JsonLines == [blank : {FALSE}, response : Fragments, done : BOOLEAN]
Lines == {BlankLine} \cup JsonLines

ModelLists == { <<>>, <<"m1", "m2">>, <<"m3">> }

Templates == { <<>>, <<" ">> }

\* Messages of OllamaWorker.error
MsgConnect  == "Cannot connect to Ollama. Is it running?"
MsgTimeoutG == "Timeout during text generation"
MsgTimeoutS == "Timeout during model scanning"
MsgHttp     == "API Error: 500"
MsgRequired == "Model and prompt are required for generation"
MsgOther    == "str(e)"

-----------------------------------------------------------------------------
\* faulty variant of StreamLine: every non-empty response is cleaned
StreamLineCleanAll(prompt, is_first_chunk, line) ==
    IF line.blank
    THEN [yields |-> FALSE, yield |-> <<>>, first |-> is_first_chunk,
          cleaned |-> FALSE, brk |-> FALSE]
    ELSE [yields  |-> line.response # <<>>
                      /\ clean_completion(prompt, line.response) # <<>>,
          yield   |-> IF line.response # <<>>
                      THEN clean_completion(prompt, line.response) ELSE <<>>,
          first   |-> is_first_chunk /\ line.response = <<>>,
          cleaned |-> line.response # <<>>,
          brk     |-> line.done]

\* faulty variant of StreamLine: the loop does not break at a done line
StreamLineNoBreak(prompt, is_first_chunk, line) ==
    IF line.blank
    THEN [yields |-> FALSE, yield |-> <<>>, first |-> is_first_chunk,
          cleaned |-> FALSE, brk |-> FALSE]
    ELSE LET clean == is_first_chunk /\ line.response # <<>>
             chunk == IF clean THEN clean_completion(prompt, line.response)
                               ELSE line.response
         IN  [yields  |-> chunk # <<>>,
              yield   |-> chunk,
              first   |-> is_first_chunk /\ ~clean,
              cleaned |-> clean,
              brk     |-> FALSE]

\* faulty variant of StreamLine: the chunk is yielded also when it is empty
StreamLineYieldEmpty(prompt, is_first_chunk, line) ==
    IF line.blank
    THEN [yields |-> FALSE, yield |-> <<>>, first |-> is_first_chunk,
          cleaned |-> FALSE, brk |-> FALSE]
    ELSE LET clean == is_first_chunk /\ line.response # <<>>
             chunk == IF clean THEN clean_completion(prompt, line.response)
                               ELSE line.response
         IN  [yields  |-> TRUE,
              yield   |-> chunk,
              first   |-> is_first_chunk /\ ~clean,
              cleaned |-> clean,
              brk     |-> line.done]

\* OllamaAPI.generate_text_stream: the body of the loop over iter_lines().
\* yields: `yield chunk` is executed for this line; yield: the chunk;
\* first: is_first_chunk afterwards; cleaned: clean_completion was applied;
\* brk: the loop breaks after this line.
StreamLine(prompt, is_first_chunk, line) ==
    IF line.blank
    THEN [yields |-> FALSE, yield |-> <<>>, first |-> is_first_chunk,
          cleaned |-> FALSE, brk |-> FALSE]
    ELSE LET clean == is_first_chunk /\ line.response # <<>>
             chunk == IF clean THEN clean_completion(prompt, line.response)
                               ELSE line.response
         IN  [yields  |-> chunk # <<>>,
              yield   |-> chunk,
              first   |-> is_first_chunk /\ ~clean,
              cleaned |-> clean,
              brk     |-> line.done]

-----------------------------------------------------------------------------
\* Signals.  A signal emitted in a worker thread whose slot lives in the UI
\* thread is posted to the UI thread's event queue.

Signal(w, sig, text, models, msg) ==
    [w |-> w, sig |-> sig, text |-> text, models |-> models, msg |-> msg]

ChunkSig(w, chunk)   == Signal(w, "text_chunk_received", chunk, <<>>, "")
\* faulty variant of FinishedSig: the text is left out
FinishedSigEmpty(w, text) == Signal(w, "finished", <<>>, <<>>, "")
FinishedSig(w, text) == Signal(w, "finished", text, <<>>, "")
ErrorSig(w, msg)     == Signal(w, "error", <<>>, <<>>, msg)
ModelsSig(w, models) == Signal(w, "models_loaded", <<>>, models, "")

\* faulty variant of Post: the newest signal is handled first
PostFront(q, sigs) == sigs \o q

\* a queued connection: the signals wait behind those posted earlier
Post(q, sigs) == q \o sigs

\* OllamaWorker.__init__
NewWorker(endpoint, model, prompt) ==
    [endpoint |-> endpoint, model |-> model, prompt |-> prompt, pc |-> "run",
     is_first_chunk |-> TRUE, full_completion |-> <<>>,
     \* history: lines read, the last line and what was yielded for it,
     \* non-empty responses read, calls of clean_completion, lines read
     \* after a done line, chunks yielded, signals emitted, the list
     \* api.scan_models() returned
     nlines |-> 0, lastLine |-> BlankLine, lastYield |-> <<>>,
     nonEmpty |-> 0, cleanCalls |-> 0, afterDone |-> 0,
     emitted |-> <<>>, sent |-> <<>>, scanned |-> <<>>]

\* history of a worker in the UI thread: the document when its session
\* started, what each of its chunks added to the document, and whether its
\* finished or error signal has been handled
NoHist == [startDoc |-> <<>>, applied |-> <<>>, ended |-> 0]

\* The thread has ended and its last signal has been handled: nothing of the
\* worker is read again, and its record is cleared.
Dead(w) == [NewWorker(ws[w].endpoint, "", <<>>) EXCEPT !.pc = "dead"]
EndedHist == [NoHist EXCEPT !.ended = 1]

Workers == 1..Len(ws)
GenWorkers == {w \in Workers : ws[w].endpoint = "generate"}
ScanWorkers == {w \in Workers : ws[w].endpoint = "scan"}

\* worker w emits sigs and continues at pc
Emit(w, sigs, pc, rec) ==
    /\ ws' = [ws EXCEPT ![w] = [rec EXCEPT !.pc = pc,
                  !.sent = @ \o [i \in 1..Len(sigs) |-> sigs[i].sig]]]
    /\ events' = Post(events, sigs)

WindowUnchanged == UNCHANGED <<doc, combo, idx, btnEnabled, btnText, status,
                               cursorPos, cur, hist, call, spell>>

UIUnchanged == WindowUnchanged /\ UNCHANGED inputs

-----------------------------------------------------------------------------
\* HTTP requests and their failures.

\* What can happen to one request of OllamaAPI (requests.get / requests.post
\* followed by raise_for_status): the connection is refused, no connection
\* or no response within the timeout, or a response with a status code.
StatusCodes == {200, 404, 500}

Behaviour(kind, code) == [kind |-> kind, code |-> code]

Behaviours(codes) ==
    {Behaviour(k, 0) : k \in {"refused", "connect_timeout", "read_timeout"}}
        \cup {Behaviour("status", c) : c \in codes}

\* response.raise_for_status() raises HTTPError for 4xx and 5xx
RaisesForStatus(code) == 400 <= code /\ code < 600

Exc(name, code) == [name |-> name, code |-> code]
NoExc == Exc("", 0)

\* the exception a request raises (NoExc: none)
Raised(b) ==
    CASE b.kind = "refused"         -> Exc("ConnectionError", 0)
      [] b.kind = "connect_timeout" -> Exc("ConnectTimeout", 0)
      [] b.kind = "read_timeout"    -> Exc("ReadTimeout", 0)
      [] b.kind = "status" /\ RaisesForStatus(b.code) -> Exc("HTTPError", b.code)
      [] OTHER                      -> NoExc

Failures(codes) == {b \in Behaviours(codes) : Raised(b) # NoExc}

\* The classes named by run()'s except clauses that an exception is an
\* instance of: requests.exceptions.ConnectTimeout derives from both
\* ConnectionError and Timeout, ReadTimeout from Timeout only.
Bases(name) ==
    CASE name = "ConnectionError" -> {"ConnectionError"}
      [] name = "ConnectTimeout"  -> {"ConnectionError", "Timeout"}
      [] name = "ReadTimeout"     -> {"Timeout"}
      [] name = "HTTPError"       -> {"HTTPError"}
      [] OTHER                    -> {}

\* f"API Error: {e.response.status_code}"
ApiError(code) ==
    CASE code = 500 -> MsgHttp
      [] code = 404 -> "API Error: 404"
      [] OTHER      -> "API Error: <code>"

\* OllamaWorker.run: the message of the first except clause that matches
ErrorMessage(endpoint, exc) ==
    IF "ConnectionError" \in Bases(exc.name) THEN MsgConnect
    ELSE IF "Timeout" \in Bases(exc.name)
         THEN (IF endpoint = "scan" THEN MsgTimeoutS ELSE MsgTimeoutG)
    ELSE IF "HTTPError" \in Bases(exc.name) THEN ApiError(exc.code)
    ELSE MsgOther

\* the exceptions raised while the response body is read: the connection
\* is lost (iter_lines), a line is not JSON (json.loads)
StreamExceptions == {Exc("ConnectionError", 0), Exc("ValueError", 0)}

-----------------------------------------------------------------------------
\* faulty variant of ScanRun: an error is reported after the list
ScanRunBoth(w) ==
    /\ w \in ScanWorkers /\ ws[w].pc = "run"
    /\ \E models \in ModelLists :
           Emit(w, <<ModelsSig(w, models), ErrorSig(w, MsgOther)>>, "exit",
                [ws[w] EXCEPT !.scanned = models])
    /\ UIUnchanged

\* OllamaWorker.run, endpoint "scan": api.scan_models() then models_loaded,
\* or an exception and error.
ScanRun(w) ==
    /\ w \in ScanWorkers /\ ws[w].pc = "run"
    /\ \/ \E models \in ModelLists :
              Emit(w, <<ModelsSig(w, models)>>, "exit",
                   [ws[w] EXCEPT !.scanned = models])
       \/ \E b \in Failures({500}) :
              Emit(w, <<ErrorSig(w, ErrorMessage("scan", Raised(b)))>>,
                   "exit", ws[w])
    /\ UIUnchanged

\* faulty variant of Required: the prompt is not looked at
RequiredModelOnly(model, prompt) == model # ""

\* OllamaWorker._generate_text: the negation of
\* `not self.model or not self.prompt` (None and "" are both falsy)
Required(model, prompt) == model # "" /\ prompt # <<>>

\* OllamaWorker.run -> _generate_text up to the response headers of the POST
GenRun(w) ==
    /\ w \in GenWorkers /\ ws[w].pc = "run"
    /\ IF ~Required(ws[w].model, ws[w].prompt)
       THEN Emit(w, <<ErrorSig(w, MsgRequired)>>, "exit", ws[w])
       ELSE \/ Emit(w, <<>>, "stream", ws[w])
            \/ \E b \in Failures({500}) :
                   Emit(w, <<ErrorSig(w, ErrorMessage("generate", Raised(b)))>>,
                        "exit", ws[w])
    /\ UIUnchanged

\* one iteration of `for chunk in api.generate_text_stream(...)`: the next
\* line of the body is read and handled; on break, finished is emitted
GenLine(w) ==
    /\ w \in GenWorkers /\ ws[w].pc = "stream"
    /\ inputs < MaxInputs
    /\ inputs' = inputs + 1
    /\ \E line \in Lines :
         LET r    == StreamLine(ws[w].prompt, ws[w].is_first_chunk, line)
             full == ws[w].full_completion \o r.yield
             rec  == [ws[w] EXCEPT
                        !.is_first_chunk = r.first,
                        !.full_completion = full,
                        !.nlines = @ + 1,
                        !.lastLine = line,
                        !.lastYield = r.yield,
                        !.nonEmpty = IF line.response # <<>> THEN @ + 1 ELSE @,
                        !.cleanCalls = IF r.cleaned THEN @ + 1 ELSE @,
                        !.afterDone = IF ws[w].lastLine.done THEN @ + 1 ELSE @,
                        !.emitted = IF r.yields THEN Append(@, r.yield) ELSE @]
             chunk == IF r.yields THEN <<ChunkSig(w, r.yield)>> ELSE <<>>
         IN  IF r.brk
             THEN Emit(w, chunk \o <<FinishedSig(w, full)>>, "exit", rec)
             ELSE Emit(w, chunk, "stream", rec)
    /\ WindowUnchanged

\* the body ends without a done line: the loop ends, finished is emitted
GenEnd(w) ==
    /\ w \in GenWorkers /\ ws[w].pc = "stream"
    /\ Emit(w, <<FinishedSig(w, ws[w].full_completion)>>, "exit", ws[w])
    /\ UIUnchanged

\* faulty variant of GenFail: error is emitted and the loop goes on
GenFailContinue(w) ==
    /\ w \in GenWorkers /\ ws[w].pc = "stream"
    /\ \E exc \in StreamExceptions :
           Emit(w, <<ErrorSig(w, ErrorMessage("generate", exc))>>,
                "stream", ws[w])
    /\ UIUnchanged

\* an exception while reading the body (connection lost, read timeout,
\* a line that is not JSON): run()'s except clauses emit error
GenFail(w) ==
    /\ w \in GenWorkers /\ ws[w].pc = "stream"
    /\ \E exc \in StreamExceptions :
           Emit(w, <<ErrorSig(w, ErrorMessage("generate", exc))>>,
                "exit", ws[w])
    /\ UIUnchanged

-----------------------------------------------------------------------------
\* MainWindow (UI thread).

SelectModel   == "Select model..."
NoModelsFound == "No models found"
TextGenerate   == "Generate"
TextGenerating == "Generating..."

\* model_combo.currentText()
CurrentText(items, i) == IF i = 0 THEN "" ELSE items[i]

HasText(text) == Len(Strip(text)) > 0

HasModel(model) == model \notin {SelectModel, NoModelsFound}

\* _on_text_changed: the value it gives generate_btn.setEnabled
OnTextChanged(text, model) == HasText(text) /\ HasModel(model)

\* _prepare_prompt_for_generation
PreparePrompt(template, user_text) ==
    IF Strip(template) # <<>> THEN template \o <<"\n", "\n">> \o user_text
    ELSE user_text

\* _on_text_chunk_received: the space inserted before the chunk
Seam(pos, text, chunk) ==
    IF /\ pos = Len(text)
       /\ text # <<>> /\ ~IsSpace(text[Len(text)])
       /\ chunk # <<>> /\ ~IsSpace(chunk[1])
    THEN <<" ">> ELSE <<>>

\* faulty variant of InsertChunk: the insertions are made at the start
InsertChunkFront(pos, text, chunk) == chunk \o Seam(pos, text, chunk) \o text

\* _on_text_chunk_received: the document after the insertions at cursor.End
InsertChunk(pos, text, chunk) == text \o Seam(pos, text, chunk) \o chunk

WorkersUnchanged == UNCHANGED <<ws, events, call, spell>>

\* the user types a character at the end of the document
\* (editor.textChanged -> _on_text_changed)
TypeChar(c) ==
    /\ inputs < MaxInputs
    /\ inputs' = inputs + 1
    /\ doc' = Append(doc, c)
    /\ btnEnabled' = OnTextChanged(doc', CurrentText(combo, idx))
    /\ UNCHANGED <<combo, idx, btnText, status, cursorPos, cur, hist>>
    /\ WorkersUnchanged

\* the user deletes the last n characters of the document
DeleteTail(n) ==
    /\ inputs < MaxInputs
    /\ n \in 1..Len(doc)
    /\ inputs' = inputs + 1
    /\ doc' = SubSeq(doc, 1, Len(doc) - n)
    /\ btnEnabled' = OnTextChanged(doc', CurrentText(combo, idx))
    /\ UNCHANGED <<combo, idx, btnText, status, cursorPos, cur, hist>>
    /\ WorkersUnchanged

\* the user picks another item of model_combo
\* (currentTextChanged -> _on_text_changed)
PickModel(i) ==
    /\ inputs < MaxInputs
    /\ i \in 1..Len(combo) /\ i # idx
    /\ inputs' = inputs + 1
    /\ idx' = i
    /\ btnEnabled' = OnTextChanged(doc, CurrentText(combo, i))
    /\ UNCHANGED <<doc, combo, btnText, status, cursorPos, cur, hist>>
    /\ WorkersUnchanged

\* scan_btn.clicked -> scan_models.  model_combo.clear() changes the current
\* text to "" when the combo had items, which runs _on_text_changed.
scan_models ==
    /\ inputs + 2 <= MaxInputs
    /\ inputs' = inputs + 2
    /\ status' = "Scanning for models..."
    /\ combo' = <<>> /\ idx' = 0
    /\ btnEnabled' = IF combo # <<>> THEN OnTextChanged(doc, "") ELSE btnEnabled
    /\ ws' = Append(ws, NewWorker("scan", "", <<>>))
    /\ hist' = Append(hist, NoHist)
    /\ cur' = Len(ws) + 1
    /\ UNCHANGED <<doc, btnText, cursorPos, events, call, spell>>

\* faulty variant of StartRejected: "No models found" passes as a model
StartRejectedSelectOnly(text, model) == ~HasText(text) \/ model = SelectModel

\* start_generation: the test that ends it with a warning
StartRejected(text, model) ==
    ~HasText(text) \/ model \in {SelectModel, NoModelsFound}

\* generate_btn.clicked -> start_generation
start_generation ==
    /\ btnEnabled
    /\ LET text == doc
           model == CurrentText(combo, idx)
       IN  IF StartRejected(text, model)
           THEN UNCHANGED vars        \* QMessageBox.warning; return
           ELSE /\ inputs + 2 <= MaxInputs
                /\ inputs' = inputs + 2
                /\ \E template \in Templates :
                     ws' = Append(ws, NewWorker("generate", model,
                                                PreparePrompt(template, text)))
                /\ cursorPos' = Len(text)
                /\ btnEnabled' = FALSE
                /\ btnText' = TextGenerating
                /\ status' = "AI is writing..."
                /\ hist' = Append(hist, [NoHist EXCEPT !.startDoc = text])
                /\ cur' = Len(ws) + 1
                /\ UNCHANGED <<doc, combo, idx, events, call, spell>>

\* the UI thread takes the oldest posted signal
Next1 == Head(events)

\* faulty variant of OnModelsLoaded: the new items are added to the old ones
OnModelsLoadedAppend ==
    /\ events # <<>> /\ Next1.sig = "models_loaded"
    /\ events' = Tail(events)
    /\ LET models == Next1.models
       IN  IF models = <<>>
           THEN /\ combo' = <<NoModelsFound>> /\ idx' = 1
                /\ status' = "No models available"
                /\ btnEnabled' = FALSE
           ELSE /\ combo' = combo \o models
                /\ idx' = IF idx = 0 THEN 1 ELSE idx
                /\ status' = "models available"
                /\ btnEnabled' = OnTextChanged(doc, CurrentText(combo', idx'))
    /\ ws' = [ws EXCEPT ![Next1.w] = Dead(Next1.w)]
    /\ hist' = [hist EXCEPT ![Next1.w] = EndedHist]
    /\ UNCHANGED <<doc, btnText, cursorPos, cur, inputs, call, spell>>

\* _on_models_loaded
OnModelsLoaded ==
    /\ events # <<>> /\ Next1.sig = "models_loaded"
    /\ events' = Tail(events)
    /\ LET models == Next1.models
           dflt == 0       \* settings.ollama.default_model is None
       IN  IF models = <<>>
           THEN /\ combo' = <<NoModelsFound>> /\ idx' = 1
                /\ status' = "No models available"
                /\ btnEnabled' = FALSE
           ELSE /\ combo' = models
                /\ idx' = IF dflt # 0 THEN dflt ELSE 1
                /\ status' = "models available"
                /\ btnEnabled' = OnTextChanged(doc, CurrentText(combo', idx'))
    /\ ws' = [ws EXCEPT ![Next1.w] = Dead(Next1.w)]
    /\ hist' = [hist EXCEPT ![Next1.w] = EndedHist]
    /\ UNCHANGED <<doc, btnText, cursorPos, cur, inputs, call, spell>>

\* _on_text_chunk_received (each insertText -> textChanged -> _on_text_changed)
OnTextChunkReceived ==
    /\ events # <<>> /\ Next1.sig = "text_chunk_received"
    /\ events' = Tail(events)
    /\ doc' = InsertChunk(cursorPos, doc, Next1.text)
    /\ btnEnabled' = IF doc' # doc THEN OnTextChanged(doc', CurrentText(combo, idx))
                     ELSE btnEnabled
    /\ hist' = [hist EXCEPT ![Next1.w].applied =
                                Append(@, SubSeq(doc', Len(doc) + 1, Len(doc')))]
    /\ UNCHANGED <<combo, idx, btnText, status, cursorPos, cur, ws, inputs,
                   call, spell>>

\* _on_generation_finished: status, _reset_generate_button, _on_text_changed
OnGenerationFinished ==
    /\ events # <<>> /\ Next1.sig = "finished"
    /\ events' = Tail(events)
    /\ status' = "Generation complete"
    /\ btnText' = TextGenerate
    /\ btnEnabled' = OnTextChanged(doc, CurrentText(combo, idx))
    /\ ws' = [ws EXCEPT ![Next1.w] = Dead(Next1.w)]
    /\ hist' = [hist EXCEPT ![Next1.w] = EndedHist]
    /\ UNCHANGED <<doc, combo, idx, cursorPos, cur, inputs, call, spell>>

\* faulty variant of OnError: the button is left as it is
OnErrorNoReset ==
    /\ events # <<>> /\ Next1.sig = "error"
    /\ events' = Tail(events)
    /\ status' = "Error"
    /\ ws' = [ws EXCEPT ![Next1.w] = Dead(Next1.w)]
    /\ hist' = [hist EXCEPT ![Next1.w] = EndedHist]
    /\ UNCHANGED <<doc, combo, idx, btnEnabled, btnText, cursorPos, cur,
                   inputs, call, spell>>

\* _on_error: status, _reset_generate_button, QMessageBox.critical
OnError ==
    /\ events # <<>> /\ Next1.sig = "error"
    /\ events' = Tail(events)
    /\ status' = "Error"
    /\ btnText' = TextGenerate
    /\ btnEnabled' = TRUE
    /\ ws' = [ws EXCEPT ![Next1.w] = Dead(Next1.w)]
    /\ hist' = [hist EXCEPT ![Next1.w] = EndedHist]
    /\ UNCHANGED <<doc, combo, idx, cursorPos, cur, inputs, call, spell>>

-----------------------------------------------------------------------------
\* OllamaAPI.scan_models: the names of data.get("models", []), in order.
\* data: the JSON object of the response; has_models: it has a "models" key.

\* faulty variant of api_scan_models: a name is returned once
api_scan_models_unique(data) ==
    LET names == IF data.has_models
                 THEN [i \in 1..Len(data.models) |-> data.models[i].name]
                 ELSE <<>>
        firsts[i \in 0..Len(names)] ==
            IF i = 0 THEN <<>>
            ELSE IF \E j \in 1..(i - 1) : names[j] = names[i]
                 THEN firsts[i - 1]
                 ELSE Append(firsts[i - 1], names[i])
    IN  firsts[Len(names)]

api_scan_models(data) ==
    IF data.has_models
    THEN [i \in 1..Len(data.models) |-> data.models[i].name]
    ELSE <<>>

-----------------------------------------------------------------------------
\* SpellChecker.__init__: no misspelled word, no worker.
\* misspelled_words: a set of [pos, length, w], one per key pos (w: the
\* worker whose result the entry is, history); worker: self.worker as an
\* index into ws (0: None); ws: the SpellCheckWorker threads created so far;
\* events: their signals posted to the UI thread, oldest first; edits: the
\* text changes so far.
NoSpell ==
    [misspelled_words |-> {}, worker |-> 0, ws |-> <<>>, events |-> <<>>,
     edits |-> 0]

-----------------------------------------------------------------------------
\* Single calls: the arguments a function is called with are drawn at the
\* start, the call is made, the result is kept.

MaxModels == 3

ModelNames == {"m1", "m2"}

ModelEntries == [name : ModelNames]

NoData == [has_models |-> FALSE, models |-> <<>>]

\* the JSON objects GET /api/tags can answer with
ServerData ==
    {NoData} \cup
    {[has_models |-> TRUE, models |-> ms] :
        ms \in UNION {[1..k -> ModelEntries] : k \in 0..MaxModels}}

TxtHelloWorld ==
    <<"H","e","l","l","o"," ","w","o","r","l","d">>
TxtHelloWorldRaw ==
    <<"H","e","l","l","o"," ","w","o","r","l","d","!"," ","H","o","w"," ",
      "a","r","e"," ","y","o","u"," ","t","o","d","a","y","?">>
TxtHowAreYou ==
    <<"!"," ","H","o","w"," ","a","r","e"," ","y","o","u"," ","t","o","d",
      "a","y","?">>
TxtStart ==
    <<"S","t","a","r","t">>
TxtHeresRaw ==
    <<"H","e","r","e","'","s"," ","t","h","e"," ","c","o","n","t","i","n",
      "u","a","t","i","o","n",":"," ","a","n","d"," ","t","h","i","s"," ",
      "i","s"," ","m","o","r","e"," ","t","e","x","t",".">>
TxtMoreText ==
    <<"a","n","d"," ","t","h","i","s"," ","i","s"," ","m","o","r","e"," ",
      "t","e","x","t",".">>
TxtHeSaid ==
    <<"H","e"," ","s","a","i","d">>
TxtHelloThereRaw ==
    <<QUOTE,"H","e","l","l","o"," ","t","h","e","r","e",QUOTE>>
TxtHelloThere ==
    <<"H","e","l","l","o"," ","t","h","e","r","e",QUOTE>>
TxtContinuation ==
    <<"c","o","n","t","i","n","u","a","t","i","o","n",":">>
TxtCompletion ==
    <<"C","o","m","p","l","e","t","i","o","n",":">>

\* the text before the cursor
Originals ==
    { <<>>, <<"a">>, <<"a", QUOTE>>, <<" ", "a", " ">>,
      TxtHelloWorld, TxtStart, TxtHeSaid }

\* raw responses: optional white space, up to two lead-in phrases, an
\* optional quote, a body
Phrases == { <<>>, TxtContinuation, TxtCompletion }

Bodies == { <<"b">>, <<"a", "a", "b">>, <<"b", QUOTE>>, <<"b", " ">> }

Completions ==
    { lead \o p1 \o <<" ">> \o p2 \o q \o body :
        lead \in {<<>>, <<" ">>}, p1 \in Phrases, p2 \in Phrases,
        q \in {<<>>, <<QUOTE>>}, body \in Bodies }
      \cup { TxtHelloWorldRaw, TxtHeresRaw, TxtHelloThereRaw }

NoCall ==
    [op |-> "none", done |-> FALSE, original |-> <<>>, completion |-> <<>>,
     data |-> NoData, endpoint |-> "", behaviour |-> Behaviour("", 0),
     model |-> "", stream |-> FALSE, requests |-> 0,
     parent |-> FALSE, chosen |-> "", write_ok |-> FALSE,
     current_file |-> "None", returned |-> FALSE, written |-> <<>>,
     file_after |-> "None",
     result |-> <<>>, sent |-> <<>>, msg |-> ""]

CleanCalls ==
    {[NoCall EXCEPT !.op = "clean_completion", !.original = o, !.completion = c] :
        o \in Originals, c \in Completions}

ScanCalls ==
    {[NoCall EXCEPT !.op = "scan_models", !.data = d] : d \in ServerData}

RunCalls ==
    {[NoCall EXCEPT !.op = "run", !.endpoint = e, !.behaviour = b] :
        e \in {"scan", "generate"}, b \in Failures(StatusCodes)}

\* OllamaClient.generate_text(model, prompt, stream=...) and the text of the
\* "response" key the server answers with (<<>>: the key is missing or empty)
GenerateCalls ==
    {[NoCall EXCEPT !.op = "generate_text", !.model = m, !.stream = st,
                    !.original = o, !.completion = c] :
        m \in {"", "m1"}, st \in BOOLEAN, o \in Originals,
        c \in Completions \cup {<<>>}}

\* FileManager.current_file before any file was saved or loaded
None == "None"

\* FileManager(parent).save_as_txt(text): whether there is a parent widget,
\* what the save dialog returns ("": cancelled), whether open() and write()
\* succeed, and current_file before the call
SaveCalls ==
    {[NoCall EXCEPT !.op = "save_as_txt", !.original = t, !.parent = pa,
                    !.chosen = ch, !.write_ok = ok, !.current_file = cf,
                    !.file_after = cf] :
        t \in {<<>>, <<" ">>, <<"a">>, <<" ", "a", " ">>}, pa \in BOOLEAN,
        ch \in {"", "p1.txt", "p2.txt"}, ok \in BOOLEAN,
        cf \in {None, "p0.txt", "p1.txt"}}

MainUnchanged == UNCHANGED <<doc, combo, idx, btnEnabled, btnText, status,
                             cursorPos, cur, ws, events, hist, inputs, spell>>

\* OllamaAPI.clean_completion(original, completion)
CallCleanCompletion ==
    /\ call.op = "clean_completion" /\ ~call.done
    /\ call' = [call EXCEPT !.done = TRUE,
                  !.result = clean_completion(call.original, call.completion)]
    /\ MainUnchanged

\* OllamaAPI.scan_models() on a successful response
CallScanModels ==
    /\ call.op = "scan_models" /\ ~call.done
    /\ call' = [call EXCEPT !.done = TRUE, !.result = api_scan_models(call.data)]
    /\ MainUnchanged

\* OllamaWorker.run() when the request fails
CallRun ==
    /\ call.op = "run" /\ ~call.done
    /\ call' = [call EXCEPT !.done = TRUE, !.sent = <<"error">>,
                  !.msg = ErrorMessage(call.endpoint, Raised(call.behaviour))]
    /\ MainUnchanged

\* faulty variant of generate_text: the returned text is cleaned twice
generate_text_twice(prompt, response) ==
    clean_completion(prompt, clean_completion(prompt, response))

\* OllamaAPI.generate_text(model, prompt, ...) on a successful response
\* whose "response" key holds the given text
generate_text(prompt, response) == clean_completion(prompt, response)

\* OllamaWorker.run() of a generate worker whose request succeeds; in the
\* streaming case the body is one line {"response": ..., "done": true}
CallGenerateText ==
    /\ call.op = "generate_text" /\ ~call.done
    /\ call' =
         IF ~Required(call.model, call.original)
         THEN [call EXCEPT !.done = TRUE, !.sent = <<"error">>,
                           !.msg = MsgRequired]
         ELSE IF call.stream
         THEN LET line == [blank |-> FALSE, response |-> call.completion,
                           done |-> TRUE]
                  r    == StreamLine(call.original, TRUE, line)
              IN  [call EXCEPT !.done = TRUE, !.requests = 1,
                       !.result = IF r.yields THEN r.yield ELSE <<>>,
                       !.sent = (IF r.yields THEN <<"text_chunk_received">>
                                             ELSE <<>>) \o <<"finished">>]
         ELSE [call EXCEPT !.done = TRUE, !.requests = 1,
                   !.result = generate_text(call.original, call.completion),
                   !.sent = <<"finished">>]
    /\ MainUnchanged

\* FileManager._get_save_path: the dialog's answer, None when cancelled or
\* when there is no parent widget
get_save_path(parent, chosen) ==
    IF parent /\ chosen # "" THEN chosen ELSE None

\* faulty variant of save_as_txt: current_file is set before the write
save_as_txt_set_first(current_file, parent, chosen, write_ok, text) ==
    IF ~HasText(text)
    THEN [returned |-> FALSE, current_file |-> current_file, written |-> <<>>]
    ELSE LET file_path == get_save_path(parent, chosen)
         IN  IF file_path = None
             THEN [returned |-> FALSE, current_file |-> current_file,
                   written |-> <<>>]
             ELSE IF write_ok
             THEN [returned |-> TRUE, current_file |-> file_path,
                   written |-> text]
             ELSE [returned |-> FALSE, current_file |-> file_path,
                   written |-> <<>>]

\* FileManager.save_as_txt(text): the value returned, current_file
\* afterwards and the text written to the chosen file
save_as_txt(current_file, parent, chosen, write_ok, text) ==
    IF ~HasText(text)
    THEN [returned |-> FALSE, current_file |-> current_file, written |-> <<>>]
    ELSE LET file_path == get_save_path(parent, chosen)
         IN  IF file_path = None
             THEN [returned |-> FALSE, current_file |-> current_file,
                   written |-> <<>>]
             ELSE IF write_ok
             THEN [returned |-> TRUE, current_file |-> file_path,
                   written |-> text]
             ELSE [returned |-> FALSE, current_file |-> current_file,
                   written |-> <<>>]

CallSaveAsTxt ==
    /\ call.op = "save_as_txt" /\ ~call.done
    /\ LET r == save_as_txt(call.current_file, call.parent, call.chosen,
                            call.write_ok, call.original)
       IN  call' = [call EXCEPT !.done = TRUE, !.returned = r.returned,
                       !.file_after = r.current_file, !.written = r.written]
    /\ MainUnchanged

InitCalls ==
    /\ doc = <<>>
    /\ combo = <<SelectModel>> /\ idx = 1
    /\ btnEnabled = FALSE
    /\ btnText = TextGenerate
    /\ status = "Ready"
    /\ cursorPos = 0
    /\ cur = 0
    /\ ws = <<>>
    /\ events = <<>>
    /\ hist = <<>>
    /\ inputs = 0
    /\ spell = NoSpell
    /\ call \in CleanCalls \cup ScanCalls \cup RunCalls \cup GenerateCalls
                \cup SaveCalls

NextCalls ==
    \/ CallCleanCompletion
    \/ CallScanModels
    \/ CallRun
    \/ CallGenerateText
    \/ CallSaveAsTxt

SpecCalls == InitCalls /\ [][NextCalls]_vars

-----------------------------------------------------------------------------
\* MainWindow.__init__: empty editor, the placeholder item in model_combo,
\* generate_btn disabled, no worker.
Init ==
    /\ doc = <<>>
    /\ combo = <<SelectModel>> /\ idx = 1
    /\ btnEnabled = FALSE
    /\ btnText = TextGenerate
    /\ status = "Ready"
    /\ cursorPos = 0
    /\ cur = 0
    /\ ws = <<>>
    /\ events = <<>>
    /\ hist = <<>>
    /\ inputs = 0
    /\ call = NoCall
    /\ spell = NoSpell

Next ==
    \/ \E c \in {"a", " "} : TypeChar(c)
    \/ \E n \in 1..2 : DeleteTail(n)
    \/ \E i \in 1..2 : PickModel(i)
    \/ scan_models
    \/ start_generation
    \/ OnModelsLoaded
    \/ OnTextChunkReceived
    \/ OnGenerationFinished
    \/ OnError
    \/ \E w \in Workers : ScanRun(w)
    \/ \E w \in Workers : GenRun(w)
    \/ \E w \in Workers : GenLine(w)
    \/ \E w \in Workers : GenEnd(w)
    \/ \E w \in Workers : GenFail(w)

Spec == Init /\ [][Next]_vars

-----------------------------------------------------------------------------
\* The spell checker (src/src/ai_writer/core/spell_checker.py), with
\* enchant available and spell checking enabled.  The character formats of
\* the document and the suggestions of the dictionary are left out.
\* (In Spec the window has no spell checker: MainWindow.spell_checker is
\* None when enchant is missing or spell checking is switched off.)

MaxEdits == 3

\* the letters of the texts: "a" stands for a letter of a word the
\* dictionary knows, "x" for a letter that makes the word unknown
IsLetter(c) == c \in {"a", "x"}

\* the length of the run of letters that starts at text[i]
RECURSIVE RunLen(_, _)
RunLen(text, i) ==
    IF i > Len(text) \/ ~IsLetter(text[i]) THEN 0
    ELSE 1 + RunLen(text, i + 1)

\* word_pattern.finditer(text) from text[i] on: match.start() and the
\* length of match.group(), in order
RECURSIVE MatchesFrom(_, _)
MatchesFrom(text, i) ==
    IF i > Len(text) THEN <<>>
    ELSE IF ~IsLetter(text[i]) THEN MatchesFrom(text, i + 1)
    ELSE LET n == RunLen(text, i)
         IN  <<[start |-> i - 1, length |-> n]>> \o MatchesFrom(text, i + n)

\* dictionary.check(word)
DictCheck(text, match) ==
    \A k \in 1..match.length : text[match.start + k] # "x"

\* SpellCheckWorker(text, dictionary_tag), started
NewSpellWorker(text) ==
    [text |-> text, matches |-> MatchesFrom(text, 1), next |-> 1,
     pc |-> "check", should_stop |-> FALSE]

WordChecked(w, match, is_correct) ==
    [w |-> w, sig |-> "word_checked", start |-> match.start,
     length |-> match.length, is_correct |-> is_correct]

CheckingFinished(w) ==
    [w |-> w, sig |-> "checking_finished", start |-> 0, length |-> 0,
     is_correct |-> TRUE]

\* QThread.isRunning()
IsRunning(w) == spell.ws[w].pc # "done"

\* worker.stop(); worker.wait(): what the worker emits until run() returns.
\* Past the test of _should_stop it finishes the word it is at.
StopAndWait(w) ==
    LET r == spell.ws[w]
    IN  (IF r.pc = "body"
         THEN <<WordChecked(w, r.matches[r.next],
                            DictCheck(r.text, r.matches[r.next]))>>
         ELSE <<>>) \o <<CheckingFinished(w)>>

\* check_spelling, called by _on_text_changed with the new text.
\* `self.worker = SpellCheckWorker(...)` releases the old worker object:
\* it is destroyed, and its signals not yet delivered go with it.
check_spelling(text) ==
    LET w       == spell.worker
        running == w # 0 /\ IsRunning(w)
        stopped == IF running
                   THEN [spell.ws EXCEPT ![w].should_stop = TRUE,
                                         ![w].pc = "done"]
                   ELSE spell.ws
        posted  == IF running THEN StopAndWait(w) ELSE <<>>
    IN  spell' = [spell EXCEPT
            !.misspelled_words = {},
            !.events = IF HasText(text)
                       THEN SelectSeq(@ \o posted, LAMBDA e : e.w # w)
                       ELSE @ \o posted,
            !.ws = IF HasText(text) THEN Append(stopped, NewSpellWorker(text))
                   ELSE stopped,
            !.worker = IF HasText(text) THEN Len(spell.ws) + 1 ELSE @,
            !.edits = @ + 1]

GenerationUnchanged ==
    UNCHANGED <<combo, idx, btnText, status, cursorPos, cur, ws, events, hist,
                inputs, call>>

\* the user types a character at the end of the document: editor.textChanged
\* -> MainWindow._on_text_changed, SpellChecker._on_text_changed
SpellTypeChar(c) ==
    /\ spell.edits < MaxEdits
    /\ doc' = Append(doc, c)
    /\ btnEnabled' = OnTextChanged(doc', CurrentText(combo, idx))
    /\ check_spelling(doc')
    /\ GenerationUnchanged

\* the user deletes the last character of the document
SpellDeleteTail ==
    /\ spell.edits < MaxEdits
    /\ doc # <<>>
    /\ doc' = SubSeq(doc, 1, Len(doc) - 1)
    /\ btnEnabled' = OnTextChanged(doc', CurrentText(combo, idx))
    /\ check_spelling(doc')
    /\ GenerationUnchanged

\* SpellCheckWorker.run: the head of the loop over the matches; after the
\* last match, checking_finished is emitted
SpellWorkerCheck(w) ==
    /\ w \in 1..Len(spell.ws) /\ spell.ws[w].pc = "check"
    /\ LET r == spell.ws[w]
       IN  IF r.next > Len(r.matches) \/ r.should_stop
           THEN spell' = [spell EXCEPT !.ws[w].pc = "done",
                              !.events = Append(@, CheckingFinished(w))]
           ELSE spell' = [spell EXCEPT !.ws[w].pc = "body"]
    /\ UNCHANGED <<doc, btnEnabled>>
    /\ GenerationUnchanged

\* SpellCheckWorker.run: the body of the loop, word_checked is emitted
SpellWorkerBody(w) ==
    /\ w \in 1..Len(spell.ws) /\ spell.ws[w].pc = "body"
    /\ LET r == spell.ws[w]
           match == r.matches[r.next]
       IN  spell' = [spell EXCEPT !.ws[w].pc = "check",
                         !.ws[w].next = @ + 1,
                         !.events = Append(@,
                             WordChecked(w, match, DictCheck(r.text, match)))]
    /\ UNCHANGED <<doc, btnEnabled>>
    /\ GenerationUnchanged

\* SpellCheckWorker.run: enchant.Dict or the dictionary raises; the
\* exception is printed and checking_finished is emitted
SpellWorkerFail(w) ==
    /\ w \in 1..Len(spell.ws) /\ spell.ws[w].pc \in {"check", "body"}
    /\ spell' = [spell EXCEPT !.ws[w].pc = "done",
                     !.events = Append(@, CheckingFinished(w))]
    /\ UNCHANGED <<doc, btnEnabled>>
    /\ GenerationUnchanged

\* _on_word_checked
OnWordChecked ==
    /\ spell.events # <<>> /\ Head(spell.events).sig = "word_checked"
    /\ LET e == Head(spell.events)
       IN  spell' = [spell EXCEPT !.events = Tail(@),
                 !.misspelled_words =
                     IF ~e.is_correct
                     THEN {m \in @ : m.pos # e.start}
                              \cup {[pos |-> e.start, length |-> e.length,
                                     w |-> e.w]}
                     ELSE @]
    /\ UNCHANGED <<doc, btnEnabled>>
    /\ GenerationUnchanged

\* _on_checking_finished: apply_highlights
OnCheckingFinished ==
    /\ spell.events # <<>> /\ Head(spell.events).sig = "checking_finished"
    /\ spell' = [spell EXCEPT !.events = Tail(@)]
    /\ UNCHANGED <<doc, btnEnabled>>
    /\ GenerationUnchanged

InitSpell == Init

NextSpell ==
    \/ \E c \in {"a", "x", " "} : SpellTypeChar(c)
    \/ SpellDeleteTail
    \/ \E w \in 1..Len(spell.ws) : SpellWorkerCheck(w)
    \/ \E w \in 1..Len(spell.ws) : SpellWorkerBody(w)
    \/ \E w \in 1..Len(spell.ws) : SpellWorkerFail(w)
    \/ OnWordChecked
    \/ OnCheckingFinished

SpecSpell == InitSpell /\ [][NextSpell]_vars

-----------------------------------------------------------------------------
\* Properties.

Last(q) == q[Len(q)]

RECURSIVE Concat(_)
Concat(qs) == IF qs = <<>> THEN <<>> ELSE Head(qs) \o Concat(Tail(qs))

IsTerminal(sig) == sig \in {"finished", "error"}

\* a generation session: from start_generation creating the worker until
\* the handler of its finished or error signal has run
Sessions == {w \in GenWorkers : ws[w].pc # "dead"}

\* the signals of worker w that wait in the UI thread's queue, oldest first
PendingOf(w) == SelectSeq(events, LAMBDA e : e.w = w)
PendingChunks(w) ==
    LET q == SelectSeq(events, LAMBDA e : e.w = w /\ e.sig = "text_chunk_received")
    IN  [i \in 1..Len(q) |-> q[i].text]

\* this step is the handler of the k-th chunk of session w
AppliesChunk(w, k) ==
    /\ w \in Sessions
    /\ Len(hist[w].applied) = k - 1
    /\ Len(hist'[w].applied) = k

\* this step is the handler of the finished signal of session w
HandlesFinished(w) ==
    /\ w \in Sessions
    /\ events # <<>> /\ Head(events).w = w /\ Head(events).sig = "finished"
    /\ events' = Tail(events)

\* this step is the handler of the finished or error signal of session w
HandlesTerminal(w) ==
    /\ w \in Sessions
    /\ events # <<>> /\ Head(events).w = w /\ IsTerminal(Head(events).sig)
    /\ events' = Tail(events)

\* what generate_text_stream is to yield for the line read last: the
\* response, cleaned when it is the first non-empty response of the body
ExpectedYield(w) ==
    IF ws[w].lastLine.response # <<>> /\ ws[w].nonEmpty = 1
    THEN clean_completion(ws[w].prompt, ws[w].lastLine.response)
    ELSE ws[w].lastLine.response

\* C1 (as claimed): while a generation session is active the generate
\* button is disabled and there is no second active generation session.
C1_OneActiveGeneration ==
    /\ Cardinality(Sessions) <= 1
    /\ Sessions # {} => ~btnEnabled

\* C2 (as claimed): every non-empty fragment of the server is carried, as
\* it is, by a text_chunk_received signal: the last chunk emitted is the
\* last non-empty response read.
C2_ServerFragmentsAsSent ==
    \A w \in Sessions :
        (ws[w].nlines > 0 /\ ws[w].lastLine.response # <<>>) =>
            /\ ws[w].emitted # <<>>
            /\ Last(ws[w].emitted) = ws[w].lastLine.response

\* C2 (amended): the chunks yielded by generate_text_stream (the server's
\* non-empty fragments, the first one cleaned and skipped when that leaves
\* nothing) reach the document in the order they were yielded: the chunks
\* applied so far followed by the chunks waiting in the queue are the
\* chunks emitted, and the i-th insertion is the i-th chunk, after the seam
\* space if one is inserted.
C2_YieldedFragmentsInOrder ==
    \A w \in Sessions :
        LET applied == hist[w].applied
            emitted == ws[w].emitted
            pending == PendingChunks(w)
        IN  /\ Len(applied) + Len(pending) = Len(emitted)
            /\ \A i \in 1..Len(applied) :
                   applied[i] \in {emitted[i], <<" ">> \o emitted[i]}
            /\ \A i \in 1..Len(pending) : pending[i] = emitted[Len(applied) + i]
            /\ Len(emitted) <= ws[w].nonEmpty
            /\ (ws[w].nlines > 0 /\ ExpectedYield(w) # <<>>) =>
                   (emitted # <<>> /\ Last(emitted) = ExpectedYield(w))

\* C2 witness: two different chunks of one session are in the document, a
\* third waits or none does
C2_Witness ==
    \E w \in Sessions :
        /\ Len(hist[w].applied) = 2
        /\ ws[w].emitted[1] # ws[w].emitted[2]

\* C3 (as claimed): after the k-th chunk of a session is applied, the
\* document is the text at session start, the optional seam space and the
\* chunks 1..k.
C3_MonotonicAppend ==
    [][\A w \in GenWorkers : \A k \in 1..MaxInputs :
         AppliesChunk(w, k) =>
            LET frags == Concat(SubSeq(ws[w].emitted, 1, k))
            IN  doc' \in {hist[w].startDoc \o frags,
                          hist[w].startDoc \o <<" ">> \o frags}]_vars

\* C4 (as claimed): when the first chunk of a session is applied, one space
\* is put before it exactly if the document ends in a non-whitespace
\* character and the chunk starts with one.
C4_SeamSpaceAtFirstFragment ==
    [][\A w \in GenWorkers :
         AppliesChunk(w, 1) =>
            LET chunk == Head(events).text
                need  == /\ doc # <<>> /\ ~IsSpace(Last(doc))
                         /\ ~IsSpace(chunk[1])
            IN  doc' = doc \o (IF need THEN <<" ">> ELSE <<>>) \o chunk]_vars

\* C5 (as claimed): a chunk of a session after its first one is applied
\* without a space before it.
C5_NoSeamSpaceLater ==
    [][\A w \in GenWorkers : \A k \in 2..MaxInputs :
         AppliesChunk(w, k) => doc' = doc \o Head(events).text]_vars

\* C6: clean_completion is called for the first non-empty response and for
\* no other: what is yielded for any other line is its response as sent.
C6_CleanOnlyFirstFragment ==
    \A w \in Sessions :
        /\ ws[w].cleanCalls = IF ws[w].nonEmpty > 0 THEN 1 ELSE 0
        /\ ws[w].is_first_chunk = (ws[w].nonEmpty = 0)
        /\ ws[w].nlines > 0 =>
             ws[w].lastYield =
                IF ws[w].lastLine.response # <<>> /\ ws[w].nonEmpty = 1
                THEN clean_completion(ws[w].prompt, ws[w].lastLine.response)
                ELSE ws[w].lastLine.response

\* C6 witness: the first non-empty fragment was cleaned to nothing and not
\* yielded, and the second one, which cleaning would change, is yielded as
\* sent
C6_Witness ==
    \E w \in Sessions :
        /\ ws[w].nonEmpty = 2
        /\ ws[w].emitted = <<ws[w].lastLine.response>>
        /\ clean_completion(ws[w].prompt, ws[w].lastLine.response)
              # ws[w].lastLine.response

\* C7 (as claimed): a non-empty response on the done line is yielded, and
\* the stream ends there.
C7_DoneFragmentYielded ==
    \A w \in Sessions :
        (ws[w].nlines > 0 /\ ws[w].lastLine.done) =>
            /\ ws[w].pc = "exit" /\ ws[w].afterDone = 0
            /\ ws[w].lastLine.response # <<>> => ws[w].lastYield # <<>>

\* C7 (amended): the stream ends at the first done line: no line is read
\* after it, finished is the last signal, and the line's fragment (cleaned
\* when it is the first non-empty fragment of the body) is, if non-empty,
\* the chunk emitted just before finished.
C7_StreamEndsAtDone ==
    \A w \in Sessions :
        /\ ws[w].afterDone = 0
        /\ (ws[w].nlines > 0 /\ ws[w].lastLine.done) =>
             LET sent == ws[w].sent
             IN  /\ ws[w].pc = "exit"
                 /\ sent # <<>> /\ Last(sent) = "finished"
                 /\ ExpectedYield(w) # <<>> =>
                      /\ ws[w].lastYield = ExpectedYield(w)
                      /\ Last(ws[w].emitted) = ExpectedYield(w)
                      /\ Len(sent) >= 2
                      /\ sent[Len(sent) - 1] = "text_chunk_received"
                 /\ ExpectedYield(w) = <<>> => ws[w].lastYield = <<>>

\* C7 witness: a done line with a fragment, yielded after an earlier chunk
C7_Witness ==
    \E w \in Sessions :
        /\ ws[w].lastLine.done /\ ws[w].lastYield # <<>>
        /\ Len(ws[w].emitted) = 2
        /\ ws[w].sent = <<"text_chunk_received", "text_chunk_received", "finished">>

\* C9 (as claimed): the finished signal of a session that put no character
\* into the document is reported as "no completion generated".
C9_NoCompletionReported ==
    [][\A w \in GenWorkers :
         (HandlesFinished(w) /\ hist[w].applied = <<>>) =>
             status' = "No completion generated"]_vars

TerminalCount(w) ==
    Cardinality({i \in 1..Len(ws[w].sent) : IsTerminal(ws[w].sent[i])})

\* C10: a generation worker emits at most one of finished and error, exactly
\* one when run() has returned, and nothing after it; the signals reach the
\* UI thread in that order; the handler of the terminal signal ends the
\* session with the generate button showing its normal label.
C10_OneTerminalEvent ==
    /\ [](\A w \in Sessions :
            LET sent == ws[w].sent
                pend == PendingOf(w)
            IN  /\ TerminalCount(w) <= 1
                /\ (ws[w].pc = "exit") = (TerminalCount(w) = 1)
                /\ TerminalCount(w) = 1 => IsTerminal(Last(sent))
                /\ Len(pend) <= Len(sent)
                /\ \A i \in 1..Len(pend) :
                       pend[i].sig = sent[Len(sent) - Len(pend) + i]
                /\ hist[w].ended = 0)
    /\ [][\A w \in GenWorkers :
            HandlesTerminal(w) =>
                /\ btnText' = TextGenerate
                /\ w \notin Sessions'
                /\ hist'[w].ended = 1
                /\ PendingOf(w)' = <<>>]_vars

\* C10 witness: the finished signal of a session has been handled: the
\* session is over and the button shows its normal label
C10_Witness ==
    \E w \in GenWorkers :
        /\ hist[w].ended = 1 /\ ws[w].pc = "dead"
        /\ btnText = TextGenerate
        /\ status = "Generation complete"

-----------------------------------------------------------------------------
\* Properties of single calls (SpecCalls) and of the scan and streaming
\* workers.

IsSuffix(t, u) == Len(t) <= Len(u) /\ SubSeq(u, Len(u) - Len(t) + 1, Len(u)) = t

\* a call of clean_completion has returned
Cleaned == call.op = "clean_completion" /\ call.done

\* clean_completion after its first step: the completion, trimmed, without
\* the echo of the original
AfterEcho(original, completion) ==
    IF StartsWith(Strip(completion), Strip(original))
    THEN Strip(Drop(Strip(completion), Len(Strip(original))))
    ELSE Strip(completion)

\* clean_completion after its second step: the lead-in phrases are gone
BeforeQuoteRule(original, completion) ==
    StripPrefixes(AfterEcho(original, completion), 1)

\* text starts, case-insensitively, with the i-th lead-in phrase
StartsWithPhrase(text, i) == StartsWith(Lower(text), prefixes[i])

StartsWithAnyPhrase(text) ==
    \E i \in 1..Len(prefixes) : StartsWithPhrase(text, i)

\* C11 (as claimed): a failed request gives one error whose message names
\* the failure: refused -> connection error, no response within the
\* timeout -> timeout error, a 4xx/5xx status -> API error with that code.
C11_ErrorKindIdentifiesFailure ==
    (call.op = "run" /\ call.done) =>
        /\ call.sent = <<"error">>
        /\ call.msg =
             CASE call.behaviour.kind = "refused" -> MsgConnect
               [] call.behaviour.kind \in {"connect_timeout", "read_timeout"} ->
                    (IF call.endpoint = "scan" THEN MsgTimeoutS ELSE MsgTimeoutG)
               [] call.behaviour.kind = "status" -> ApiError(call.behaviour.code)

\* C12 (as claimed): start_generation creates no worker when the text is
\* blank or no model is selected (placeholder, "No models found", or a
\* combo emptied by a scan).
C12_NoWorkerWithoutTextOrModel ==
    [][(Len(ws') = Len(ws) + 1 /\ ws'[Len(ws')].endpoint = "generate") =>
          /\ HasText(doc)
          /\ CurrentText(combo, idx) \notin {SelectModel, NoModelsFound, ""}]_vars

\* C13: the items of the model selector are never a mix of lists: they are
\* the placeholder, nothing (a scan is running), "No models found" or one
\* scanned list; the handler of models_loaded with a non-empty list makes
\* the items that list.
C13_ModelListReplaced ==
    /\ [](combo \in {<<SelectModel>>, <<>>, <<NoModelsFound>>}
                      \cup (ModelLists \ {<<>>}))
    /\ [][(/\ events # <<>> /\ Head(events).sig = "models_loaded"
           /\ Head(events).models # <<>>
           /\ events' = Tail(events))
             => (combo' = Head(events).models /\ idx' = 1)]_vars

\* C13 witness: the results of two scans have been handled, the second
\* list is shown
C13_Witness ==
    /\ combo = <<"m3">>
    /\ status = "models available"
    /\ \E w1, w2 \in ScanWorkers :
          w1 < w2 /\ hist[w1].ended = 1 /\ hist[w2].ended = 1

\* C14: scan_models returns the name of each entry of "models", in the
\* order and number of the entries, and nothing without a "models" key.
C14_ScanModelsNamesInOrder ==
    (call.op = "scan_models" /\ call.done) =>
        IF call.data.has_models
        THEN /\ Len(call.result) = Len(call.data.models)
             /\ \A i \in 1..Len(call.result) :
                    call.result[i] = call.data.models[i].name
        ELSE call.result = <<>>

\* C14 witness: a list that is neither sorted nor free of duplicates
C14_Witness ==
    /\ call.op = "scan_models" /\ call.done
    /\ call.result = <<"m2", "m1", "m2">>

\* C15: a scan worker has emitted nothing before run() returns and one
\* signal afterwards, models_loaded with the scanned list or error; what
\* waits in the queue for it is that signal.
C15_ScanEmitsOneNotification ==
    \A w \in ScanWorkers :
        ws[w].pc # "dead" =>
            LET sent == ws[w].sent
                pend == PendingOf(w)
            IN  /\ ws[w].pc \in {"run", "exit"}
                /\ ws[w].pc = "run" => sent = <<>>
                /\ ws[w].pc = "exit" =>
                     /\ Len(sent) = 1
                     /\ sent[1] \in {"models_loaded", "error"}
                /\ Len(pend) = Len(sent)
                /\ \A i \in 1..Len(pend) :
                     /\ pend[i].sig = sent[i]
                     /\ pend[i].sig = "models_loaded" =>
                            pend[i].models = ws[w].scanned

\* C15 witness: one scan has reported its list, another one an error
C15_Witness ==
    \E w1, w2 \in ScanWorkers :
        /\ ws[w1].pc = "exit" /\ ws[w1].sent = <<"models_loaded">>
        /\ ws[w1].scanned = <<"m1", "m2">>
        /\ ws[w2].pc = "exit" /\ ws[w2].sent = <<"error">>

ChunkCount(w) ==
    Cardinality({i \in 1..Len(ws[w].sent) : ws[w].sent[i] = "text_chunk_received"})

\* C16: a generation worker has emitted one text_chunk_received per chunk
\* yielded; its accumulated text is the chunks in order; finished, when
\* emitted, is the last signal and carries that text; the accumulated text
\* only grows at its end.
C16_FinishedCarriesAllChunks ==
    /\ [](\A w \in Sessions :
            LET pend == PendingOf(w)
            IN  /\ ChunkCount(w) = Len(ws[w].emitted)
                /\ ws[w].full_completion = Concat(ws[w].emitted)
                /\ \A i \in 1..Len(ws[w].sent) :
                       ws[w].sent[i] = "finished" => i = Len(ws[w].sent)
                /\ \A i \in 1..Len(pend) :
                       pend[i].sig = "finished" =>
                           pend[i].text = Concat(ws[w].emitted))
    /\ [][\A w \in GenWorkers :
            (w \in Sessions /\ w \in Sessions') =>
                /\ Len(ws[w].full_completion) <= Len(ws'[w].full_completion)
                /\ SubSeq(ws'[w].full_completion, 1, Len(ws[w].full_completion))
                       = ws[w].full_completion]_vars

\* C16 witness: finished waits in the queue with the text of two chunks
C16_Witness ==
    \E w \in Sessions :
        /\ Len(ws[w].emitted) = 2
        /\ \E i \in 1..Len(events) :
              /\ events[i].w = w /\ events[i].sig = "finished"
              /\ events[i].text = ws[w].emitted[1] \o ws[w].emitted[2]

\* C17 (as claimed): when the trimmed completion starts with the trimmed
\* original (not blank), the result does not start with the trimmed
\* original.
C17_EchoNeverLeads ==
    (/\ Cleaned
     /\ Strip(call.original) # <<>>
     /\ StartsWith(Strip(call.completion), Strip(call.original))) =>
        ~StartsWith(call.result, Strip(call.original))

\* C17 (amended): when the trimmed completion starts with the trimmed
\* original, that occurrence is removed once: the result is a suffix of the
\* trimmed text after it, and is that text when it starts with neither a
\* lead-in phrase nor a quote.
C17_EchoRemovedOnce ==
    (Cleaned /\ StartsWith(Strip(call.completion), Strip(call.original))) =>
        LET rest == Strip(Drop(Strip(call.completion), Len(Strip(call.original))))
        IN  /\ IsSuffix(call.result, rest)
            /\ (~StartsWithAnyPhrase(rest) /\ ~StartsWith(rest, <<QUOTE>>)) =>
                   call.result = rest
            /\ (call.original = TxtHelloWorld /\ call.completion = TxtHelloWorldRaw) =>
                   call.result = TxtHowAreYou

\* C17 witness: the example of the echo
C17_Witness ==
    /\ Cleaned
    /\ call.original = TxtHelloWorld /\ call.completion = TxtHelloWorldRaw
    /\ call.result = TxtHowAreYou

\* C18 (as claimed): when the trimmed completion starts with a lead-in
\* phrase, the result does not start with that phrase.
C18_PhraseNeverLeads ==
    Cleaned =>
        \A i \in 1..Len(prefixes) :
            StartsWithPhrase(Strip(call.completion), i) =>
                ~StartsWithPhrase(call.result, i)

\* C18 (amended): when the completion, trimmed and without the echo, starts
\* with a lead-in phrase, that occurrence is removed: the result is a suffix
\* of the trimmed text after it, and is that text when it starts with
\* neither a lead-in phrase nor a quote.
C18_PhraseRemovedOnce ==
    Cleaned =>
        LET c1 == AfterEcho(call.original, call.completion)
        IN  /\ \A i \in 1..Len(prefixes) :
                 StartsWithPhrase(c1, i) =>
                    LET rest == Strip(Drop(c1, Len(prefixes[i])))
                    IN  /\ IsSuffix(call.result, rest)
                        /\ (~StartsWithAnyPhrase(rest) /\ ~StartsWith(rest, <<QUOTE>>))
                              => call.result = rest
            /\ (call.original = TxtStart /\ call.completion = TxtHeresRaw) =>
                   call.result = TxtMoreText

\* C18 witness: the example of the lead-in phrase
C18_Witness ==
    /\ Cleaned
    /\ call.original = TxtStart /\ call.completion = TxtHeresRaw
    /\ call.result = TxtMoreText

\* C19 (as claimed): at most one lead-in phrase is removed: when the text
\* after the first removed phrase starts with a phrase again, it is kept.
C19_OnePhraseRemoved ==
    Cleaned =>
        LET c1 == AfterEcho(call.original, call.completion)
        IN  \A i \in 1..Len(prefixes) :
                StartsWithPhrase(c1, i) =>
                    LET rest == Strip(Drop(c1, Len(prefixes[i])))
                    IN  StartsWithAnyPhrase(rest) => call.result = rest

\* C20: when the text before the quote rule starts with a quote and the
\* trimmed original does not end with one, the result is that text without
\* its first character, trimmed, and a closing quote stays; otherwise the
\* result is that text.
C20_QuoteRule ==
    Cleaned =>
        LET c2 == BeforeQuoteRule(call.original, call.completion)
        IN  /\ IF /\ StartsWith(c2, <<QUOTE>>)
                  /\ ~EndsWith(Strip(call.original), <<QUOTE>>)
               THEN /\ call.result = Strip(Drop(c2, 1))
                    /\ (Len(c2) >= 2 /\ EndsWith(c2, <<QUOTE>>)) =>
                           EndsWith(call.result, <<QUOTE>>)
               ELSE call.result = c2
            /\ (call.original = TxtHeSaid /\ call.completion = TxtHelloThereRaw) =>
                   call.result = TxtHelloThere

\* C20 witness: the example of the quote
C20_Witness ==
    /\ Cleaned
    /\ call.original = TxtHeSaid /\ call.completion = TxtHelloThereRaw
    /\ call.result = TxtHelloThere

-----------------------------------------------------------------------------
\* C21: a non-streaming generation cleans the whole returned text exactly once
\* and delivers it in exactly one finished event, with no text_chunk_received
\* and no error event.
C21_BatchCleanedOnceOneFinished ==
    (call.op = "generate_text" /\ call.done /\ ~call.stream
        /\ Required(call.model, call.original))
    => /\ call.sent = <<"finished">>
       /\ call.result = clean_completion(call.original, call.completion)
       /\ call.requests = 1

C21_Witness ==
    /\ call.op = "generate_text" /\ call.done /\ ~call.stream
    /\ call.original = TxtStart
    /\ call.completion = TxtCompletion \o <<" ">> \o TxtContinuation \o <<"b">>
    /\ call.result = TxtContinuation \o <<"b">>
    /\ call.sent = <<"finished">>

-----------------------------------------------------------------------------
\* this step is the handler of an error signal
HandlesError ==
    /\ events # <<>> /\ Head(events).sig = "error"
    /\ events' = Tail(events)

\* C22: after the handler of an error event has run, the generate button is
\* enabled and shows its normal label, whether the error came from a
\* generation or from a model scan.
C22_ErrorResetsButton ==
    [][HandlesError => (btnEnabled' /\ btnText' = TextGenerate)]_vars

C22_Witness ==
    /\ status = "Error" /\ btnEnabled /\ btnText = TextGenerate
    /\ \E w \in ScanWorkers : ws[w].pc = "dead"
    /\ \E w \in GenWorkers : ws[w].pc = "dead"

-----------------------------------------------------------------------------
\* this step is start_generation creating the worker of a new session
StartsSession ==
    /\ Len(ws') = Len(ws) + 1
    /\ ws'[Len(ws')].endpoint = "generate"

\* the insertion point of session w: the document length at its start
InsertionPoint(w) == Len(hist[w].startDoc)

-----------------------------------------------------------------------------
\* this step is the handler of a models_loaded signal with an empty list
HandlesNoModels ==
    /\ events # <<>> /\ Head(events).sig = "models_loaded"
    /\ Head(events).models = <<>>
    /\ events' = Tail(events)

\* C24: when the model list comes back empty, the selector holds the single
\* placeholder "No models found" and the generate button is disabled; while
\* the placeholder is selected, no step starts a generation.
C24_NoModelsPlaceholder ==
    /\ [][HandlesNoModels =>
            (combo' = <<NoModelsFound>> /\ idx' = 1 /\ ~btnEnabled')]_vars
    /\ [][CurrentText(combo, idx) = NoModelsFound => ~StartsSession]_vars

\* the placeholder is selected, there is text, and the button can be clicked
C24_Witness ==
    /\ combo = <<NoModelsFound>> /\ idx = 1
    /\ HasText(doc) /\ btnEnabled

-----------------------------------------------------------------------------
\* C25: save_as_txt returns False and keeps current_file at its previous
\* value when the text is blank, when the save dialog is cancelled and
\* whenever the save does not complete; current_file is set to the chosen
\* path only when the write succeeded and True is returned.
C25_FailedSaveKeepsCurrentFile ==
    (call.op = "save_as_txt" /\ call.done)
    => /\ (~HasText(call.original) \/ call.chosen = "")
            => (~call.returned /\ call.file_after = call.current_file)
       /\ ~call.returned => call.file_after = call.current_file
       /\ call.returned =>
            /\ call.write_ok /\ call.chosen # ""
            /\ call.file_after = call.chosen
            /\ call.written = call.original

\* the write to the chosen file fails while another file is current
C25_Witness ==
    /\ call.op = "save_as_txt" /\ call.done
    /\ HasText(call.original) /\ call.parent
    /\ call.chosen = "p1.txt" /\ ~call.write_ok
    /\ call.current_file = "p0.txt" /\ call.file_after = "p0.txt"
    /\ ~call.returned

-----------------------------------------------------------------------------
\* a streamed generation has ended after yielding the first fragment of the
\* body
StreamedFirst ==
    /\ call.op = "generate_text" /\ call.done /\ call.stream
    /\ call.sent = <<"text_chunk_received", "finished">>

-----------------------------------------------------------------------------
\* C27: every fragment generate_text_stream yields is a non-empty string:
\* lines with an empty response, and a first fragment that cleaning reduces
\* to the empty string, are skipped, so no text_chunk_received signal
\* carries an empty fragment.
C27_NoEmptyFragment ==
    /\ \A w \in GenWorkers :
         \A i \in 1..Len(ws[w].emitted) : ws[w].emitted[i] # <<>>
    /\ \A i \in 1..Len(events) :
         events[i].sig = "text_chunk_received" => events[i].text # <<>>

\* a line with an empty response and a first fragment of white space have
\* been read, and nothing was yielded for them
C27_Witness ==
    \E w \in GenWorkers :
        /\ ws[w].pc = "stream"
        /\ ws[w].nlines = 2 /\ ws[w].nonEmpty = 1 /\ ws[w].cleanCalls = 1
        /\ ws[w].lastLine.response = <<" ">>
        /\ ws[w].emitted = <<>>
        /\ PendingChunks(w) = <<>>

-----------------------------------------------------------------------------
\* C28: a generate worker whose model or prompt is empty sends no request to
\* the server: it emits exactly one error event, no fragment and no finished
\* event; every request sent carries a model and a prompt.
C28_NoRequestWithoutModelAndPrompt ==
    (call.op = "generate_text" /\ call.done)
    => /\ (call.model = "" \/ call.original = <<>>)
            => /\ call.sent = <<"error">>
               /\ call.msg = MsgRequired
               /\ call.requests = 0
               /\ call.result = <<>>
       /\ call.requests > 0 => (call.model # "" /\ call.original # <<>>)

\* a streaming worker with a model and an empty prompt
C28_Witness ==
    /\ call.op = "generate_text" /\ call.done /\ call.stream
    /\ call.model = "m1" /\ call.original = <<>>
    /\ call.completion # <<>>
    /\ call.sent = <<"error">> /\ call.requests = 0

-----------------------------------------------------------------------------
\* C29 (as claimed): in every reachable state the generate button is enabled
\* only if the document has non-whitespace text and the selected model is a
\* real model name: not empty, not "Select model...", not "No models found".
C29_EnabledOnlyWithTextAndModel ==
    btnEnabled =>
        /\ HasText(doc)
        /\ CurrentText(combo, idx) \notin {"", SelectModel, NoModelsFound}

-----------------------------------------------------------------------------
\* C30 (as claimed): at most one spell check worker runs at a time, and
\* misspelled_words holds current results only: no entry is the result of a
\* worker that check_spelling has stopped, since such a result would have
\* been added after the clear that followed the stop.
C30_OneWorkerCurrentResults ==
    /\ Cardinality({w \in 1..Len(spell.ws) : IsRunning(w)}) <= 1
    /\ \A m \in spell.misspelled_words : ~spell.ws[m.w].should_stop

====
